---- MODULE Spec2Model ----
(***************************************************************************)
(* Model of agentic_hello_world.py: a two-node LangGraph workflow          *)
(* (call_model, call_tool) driven once from __main__.                      *)
(*                                                                         *)
(* Texts (the endpoint's reply, a message's content) are sequences of      *)
(* lexical tokens [t, s]: braces, colon, comma, whitespace, JSON scalars   *)
(* (string, number) and chatter words.  A string token is atomic, so the   *)
(* model's texts hold no brace inside a string literal, and JSON values    *)
(* are scalars (no nested containers).  Printed lines, string values and   *)
(* exception names are TLA+ strings.                                       *)
(***************************************************************************)
EXTENDS Integers, Sequences, FiniteSets, TLC

VARIABLES messages, next, active, pc, response, executed, calls, caught,
          propagated, stdout

vars == <<messages, next, active, pc, response, executed, calls, caught,
          propagated, stdout>>

----------------------------------------------------------------------------
(* Bounds of the model *)

\* longest run of chatter tokens in front of the endpoint's JSON
MaxChatter == 1
\* most key/value pairs in an object the endpoint emits
MaxPairs == 2

----------------------------------------------------------------------------
(* Tokens and texts *)

Tok(t, s) == [t |-> t, s |-> s]
LB == Tok("lbrace", "")
RB == Tok("rbrace", "")
COLON == Tok("colon", "")
COMMA == Tok("comma", "")
WS == Tok("ws", "")
Str(s) == Tok("str", s)
Num(s) == Tok("num", s)
Word(s) == Tok("word", s)

END == "__end__"

IsScalar(tok) == tok.t \in {"str", "num"}

\* str.strip(): leading and trailing whitespace removed
RECURSIVE LStrip(_)
LStrip(text) ==
    IF text # <<>> /\ Head(text) = WS THEN LStrip(Tail(text)) ELSE text

RECURSIVE RStrip(_)
RStrip(text) ==
    IF text # <<>> /\ text[Len(text)] = WS
    THEN RStrip(SubSeq(text, 1, Len(text) - 1))
    ELSE text

strip(text) == RStrip(LStrip(text))

\* str.find(ch): 0-based index of the first occurrence, -1 when there is none
find(text, ch) ==
    LET hits == {i \in 1..Len(text) : text[i] = ch}
    IN  IF hits = {} THEN -1
        ELSE (CHOOSE i \in hits : \A j \in hits : i <= j) - 1

\* str.rfind(ch): 0-based index of the last occurrence, -1 when there is none
rfind(text, ch) ==
    LET hits == {i \in 1..Len(text) : text[i] = ch}
    IN  IF hits = {} THEN -1
        ELSE (CHOOSE i \in hits : \A j \in hits : i >= j) - 1

\* text[start:end] for 0 <= start < end <= len(text)
Slice(text, start, end) == SubSeq(text, start + 1, end)

----------------------------------------------------------------------------
(* Dictionaries: insertion-ordered sequences of [k, v] with distinct keys *)

HasKey(d, k) == \E i \in 1..Len(d) : d[i].k = k

DictGet(d, k, default) ==
    IF HasKey(d, k) THEN d[CHOOSE i \in 1..Len(d) : d[i].k = k].v ELSE default

\* d[k] = v: an existing key keeps its place and takes the new value
DictSet(d, k, v) ==
    IF HasKey(d, k)
    THEN [i \in 1..Len(d) |-> IF d[i].k = k THEN [k |-> k, v |-> v] ELSE d[i]]
    ELSE Append(d, [k |-> k, v |-> v])

Keys(d) == {d[i].k : i \in 1..Len(d)}

----------------------------------------------------------------------------
(* json.loads / json.dumps on objects with scalar values *)

RECURSIVE SkipWs(_)
SkipWs(text) ==
    IF text = <<>> THEN <<>>
    ELSE IF Head(text) = WS THEN SkipWs(Tail(text))
    ELSE <<Head(text)>> \o SkipWs(Tail(text))

\* the members between the braces: pair ("," pair)*, pair = string ":" scalar
MembersOk(inner) ==
    \/ inner = <<>>
    \/ /\ Len(inner) % 4 = 3
       /\ \A i \in 1..Len(inner) :
            CASE i % 4 = 1 -> inner[i].t = "str"
              [] i % 4 = 2 -> inner[i] = COLON
              [] i % 4 = 3 -> IsScalar(inner[i])
              [] OTHER     -> inner[i] = COMMA

RECURSIVE BuildDict(_, _)
BuildDict(inner, d) ==
    IF Len(inner) < 3 THEN d
    ELSE BuildDict(SubSeq(inner, 5, Len(inner)),
                   DictSet(d, inner[1].s, inner[3]))

\* [ok, d]: ok = FALSE stands for json.JSONDecodeError
json_loads(text) ==
    LET toks == SkipWs(text)
        n == Len(toks)
    IN  IF /\ n >= 2
           /\ toks[1] = LB
           /\ toks[n] = RB
           /\ MembersOk(SubSeq(toks, 2, n - 1))
        THEN [ok |-> TRUE, d |-> BuildDict(SubSeq(toks, 2, n - 1), <<>>)]
        ELSE [ok |-> FALSE, d |-> <<>>]

RECURSIVE DumpMembers(_)
DumpMembers(d) ==
    IF d = <<>> THEN <<>>
    ELSE <<Str(d[1].k), COLON, WS, d[1].v>>
         \o (IF Len(d) > 1 THEN <<COMMA, WS>> ELSE <<>>)
         \o DumpMembers(Tail(d))

\* json.dumps(dict): '{"k": v, "k2": v2}'
json_dumps(d) == <<LB>> \o DumpMembers(d) \o <<RB>>

FinalAnswer(s) == <<[k |-> "final_answer", v |-> Str(s)]>>

----------------------------------------------------------------------------
(* Exceptions.  Every class that can be raised inside the two steps is a    *)
(* subclass of Exception.                                                   *)

ExceptionClasses ==
    {"ConnectionError", "ValueError", "JSONDecodeError", "ValidationError"}

\* a handler that names one class only: except json.JSONDecodeError
CaughtByExcept_narrow(exc) == exc = "JSONDecodeError"

\* `except Exception` of call_model and call_tool
CaughtByExcept(exc) == exc \in ExceptionClasses

----------------------------------------------------------------------------
(* The tool *)

\* the greeting without its closing mark
say_hello_unterminated(name) == "Hello, " \o name

\* the body of say_hello
say_hello(name) == "Hello, " \o name \o "!"

\* say_hello(tool_input) through the @tool wrapper, whose argument schema is
\* name: str: a value that is not a string is rejected before the body runs
ToolCall(arg) ==
    IF arg.t = "str"
    THEN [exc |-> "", result |-> say_hello(arg.s)]
    ELSE [exc |-> "ValidationError", result |-> ""]

\* a presence test in place of the truth test: any value counts as a name
Truthy_always(v) == TRUE

\* Python truth value of a JSON scalar: "" and 0 are false
Truthy(v) ==
    CASE v.t = "str" -> v.s # ""
      [] v.t = "num" -> v.s # "0"
      [] OTHER       -> FALSE

\* the membership test alone, without the comparison to "say_hello"
NamesSayHello_anytool(d) == HasKey(d, "tool")

\* "tool" in parsed_content and parsed_content["tool"] == "say_hello"
NamesSayHello(d) ==
    HasKey(d, "tool") /\ DictGet(d, "tool", Str("")) = Str("say_hello")

----------------------------------------------------------------------------
(* The endpoint: llm.invoke either raises or returns a text *)

Chatter == UNION {[1..n -> {WS, Word("Sure!")}] : n \in 0..MaxChatter}

PairSet ==
    {[k |-> k, v |-> v] :
        k \in {"tool", "tool_input", "final_answer"},
        v \in {Str("say_hello"), Str("Bob"), Str(""), Num("7")}}

PairSeqs == UNION {[1..n -> PairSet] : n \in 0..MaxPairs}

\* an object as an endpoint writes it, without json.dumps' spacing
RECURSIVE ObjMembers(_)
ObjMembers(ps) ==
    IF ps = <<>> THEN <<>>
    ELSE <<Str(ps[1].k), COLON, ps[1].v>>
         \o (IF Len(ps) > 1 THEN <<COMMA>> ELSE <<>>)
         \o ObjMembers(Tail(ps))

ObjText(ps) == <<LB>> \o ObjMembers(ps) \o <<RB>>

Malformed ==
    { <<>>, <<LB>>, <<RB>>, <<RB, LB>>, <<LB, Word("oops"), RB>>,
      <<LB, Str("tool"), RB>>, <<LB, RB, LB, RB>> }

Bodies == {ObjText(ps) : ps \in PairSeqs} \cup Malformed

Responses ==
    {pre \o body \o post :
        pre \in Chatter, body \in Bodies, post \in {<<>>, <<Word("Done.")>>}}

EndpointOutcomes ==
    {[raised |-> TRUE, text |-> <<>>]}
    \cup {[raised |-> FALSE, text |-> r] : r \in Responses}

----------------------------------------------------------------------------
(* The steps *)

Apology == "I encountered an error while processing your request."
NoName == "No name was provided to say hello to."
ToolFailure == "I couldn't execute the tool properly."

AIMessage(content) == [role |-> "assistant", content |-> content]
HumanMessage(content) == [role |-> "user", content |-> content]

\* an assignment to the last slot in place of an append
append_overwrite(msgs, message) == [msgs EXCEPT ![Len(msgs)] = message]

\* state['messages'].append(message)
append(msgs, message) == Append(msgs, message)

Last(msgs) == msgs[Len(msgs)]

\* the try block of call_model: [exc, next, content]
TryCallModel(outcome) ==
    IF outcome.raised
    THEN [exc |-> "ConnectionError", next |-> "", content |-> <<>>]
    ELSE
      LET resp == strip(outcome.text)
          start == find(resp, LB)
          end == rfind(resp, RB) + 1
      IN  IF start >= 0 /\ end > start
          THEN LET parsed == json_loads(Slice(resp, start, end))
               IN  IF parsed.ok
                   THEN [exc |-> "",
                         next |-> IF HasKey(parsed.d, "tool")
                                  THEN "call_tool" ELSE END,
                         content |-> json_dumps(parsed.d)]
                   ELSE [exc |-> "JSONDecodeError", next |-> "",
                         content |-> <<>>]
          ELSE [exc |-> "ValueError", next |-> "", content |-> <<>>]

\* the try block of call_tool: [exc, called, arg, content]
TryCallTool(last_message) ==
    LET parsed == json_loads(last_message.content)
        none == Str("")
    IN  IF ~parsed.ok
        THEN [exc |-> "JSONDecodeError", called |-> FALSE, arg |-> none,
              content |-> <<>>]
        ELSE IF NamesSayHello(parsed.d)
        THEN LET tool_input == DictGet(parsed.d, "tool_input", Str(""))
             IN  IF Truthy(tool_input)
                 THEN LET r == ToolCall(tool_input)
                      IN  [exc |-> r.exc, called |-> TRUE, arg |-> tool_input,
                           content |-> json_dumps(FinalAnswer(r.result))]
                 ELSE [exc |-> "", called |-> FALSE, arg |-> none,
                       content |-> json_dumps(FinalAnswer(NoName))]
        ELSE [exc |-> "", called |-> FALSE, arg |-> none,
              content |-> json_dumps(FinalAnswer(ToolFailure))]

----------------------------------------------------------------------------
(* The graph.  Every edge is a plain add_edge: the engine runs, in the step *)
(* after a node, every node the node has an edge to; an edge to END starts  *)
(* nothing.  No edge is conditional, and nothing reads state['next'].       *)

\* a graph with an edge from the tool step back to the decision step
edges_cyclic ==
    { <<"call_model", "call_tool">>, <<"call_model", END>>,
      <<"call_tool", "call_model">>, <<"call_tool", END>> }

edges ==
    { <<"call_model", "call_tool">>, <<"call_model", END>>,
      <<"call_tool", END>> }

entry_point == "call_model"

Successors(node) == {e[2] : e \in {x \in edges : x[1] = node}} \ {END}

----------------------------------------------------------------------------
(* What print writes *)

PyStr(v) == v.s

PyRepr(v) == IF v.t = "str" THEN "'" \o v.s \o "'" ELSE v.s

RECURSIVE DictRepr(_)
DictRepr(d) ==
    IF d = <<>> THEN ""
    ELSE "'" \o d[1].k \o "': " \o PyRepr(d[1].v)
         \o (IF Len(d) > 1 THEN ", " ELSE "") \o DictRepr(Tail(d))

TokText(tok) ==
    CASE tok.t = "lbrace" -> "{"
      [] tok.t = "rbrace" -> "}"
      [] tok.t = "colon"  -> ":"
      [] tok.t = "comma"  -> ","
      [] tok.t = "ws"     -> " "
      [] tok.t = "str"    -> "\"" \o tok.s \o "\""
      [] OTHER            -> tok.s

RECURSIVE TextStr(_)
TextStr(text) ==
    IF text = <<>> THEN "" ELSE TokText(Head(text)) \o TextStr(Tail(text))

\* the line __main__ prints for the final message
Rendered(final_message) ==
    LET parsed_message == json_loads(final_message)
    IN  IF parsed_message.ok
        THEN IF HasKey(parsed_message.d, "final_answer")
             THEN PyStr(DictGet(parsed_message.d, "final_answer", Str("")))
             ELSE "{" \o DictRepr(parsed_message.d) \o "}"
        ELSE TextStr(final_message)

----------------------------------------------------------------------------
(* The state machine *)

Init ==
    /\ messages = <<HumanMessage(<<Word("Please say hello to Alice")>>)>>
    /\ next = ""
    /\ active = {entry_point}
    /\ pc = "invoke"
    /\ response = [raised |-> FALSE, text |-> <<>>]
    /\ executed = <<>>
    /\ calls = <<>>
    /\ caught = <<>>
    /\ propagated = ""
    /\ stdout = <<>>

\* a node that raises aborts chain.invoke; otherwise its successors run next
Schedule(node, exc) ==
    IF exc # "" /\ ~CaughtByExcept(exc) THEN {} ELSE Successors(node)

\* the engine runs a node that is due while chain.invoke is in progress
Runnable(node) == pc = "invoke" /\ node \in active

\* chain.invoke returns once no node is due
Returned == pc = "invoke" /\ active = {}

CallModel ==
    /\ Runnable("call_model")
    /\ \E outcome \in EndpointOutcomes :
         LET r == TryCallModel(outcome)
         IN  /\ response' = outcome
             /\ IF r.exc = ""
                THEN /\ next' = r.next
                     /\ messages' = append(messages, AIMessage(r.content))
                     /\ UNCHANGED <<caught, propagated>>
                ELSE IF CaughtByExcept(r.exc)
                THEN /\ caught' = Append(caught, r.exc)
                     /\ messages' = append(messages,
                            AIMessage(json_dumps(FinalAnswer(Apology))))
                     /\ next' = END
                     /\ UNCHANGED propagated
                ELSE /\ propagated' = r.exc
                     /\ UNCHANGED <<messages, next, caught>>
             /\ active' = Schedule("call_model", r.exc)
    /\ executed' = Append(executed, "call_model")
    /\ UNCHANGED <<pc, calls, stdout>>

CallTool ==
    /\ Runnable("call_tool")
    /\ LET r == TryCallTool(Last(messages))
       IN  /\ calls' = IF r.called THEN Append(calls, r.arg) ELSE calls
           /\ IF r.exc = ""
              THEN /\ messages' = append(messages, AIMessage(r.content))
                   /\ next' = END
                   /\ UNCHANGED <<caught, propagated>>
              ELSE IF CaughtByExcept(r.exc)
              THEN /\ caught' = Append(caught, r.exc)
                   /\ messages' = append(messages,
                          AIMessage(json_dumps(FinalAnswer(
                              "Error executing tool: " \o r.exc))))
                   /\ next' = END
                   /\ UNCHANGED propagated
              ELSE /\ propagated' = r.exc
                   /\ UNCHANGED <<messages, next, caught>>
           /\ active' = Schedule("call_tool", r.exc)
    /\ executed' = Append(executed, "call_tool")
    /\ UNCHANGED <<pc, response, stdout>>

\* chain.invoke has returned or raised: __main__ prints one line
Main ==
    /\ Returned
    /\ stdout' = Append(stdout,
          IF propagated # ""
          THEN "An error occurred: " \o propagated
          ELSE Rendered(Last(messages).content))
    /\ pc' = "done"
    /\ UNCHANGED <<messages, next, active, response, executed, calls, caught,
                   propagated>>

Next == CallModel \/ CallTool \/ Main

Spec == Init /\ [][Next]_vars

----------------------------------------------------------------------------
(* Vocabulary of the properties *)

Ran(node) == \E i \in 1..Len(executed) : executed[i] = node

\* the object between the first "{" and the last "}" of the endpoint's reply
ExtractedObject ==
    LET resp == strip(response.text)
        start == find(resp, LB)
        end == rfind(resp, RB) + 1
    IN  IF ~response.raised /\ start >= 0 /\ end > start
        THEN json_loads(Slice(resp, start, end))
        ELSE [ok |-> FALSE, d |-> <<>>]

\* the value under "tool"; a JSON null when the key is absent
ToolOf(d) == DictGet(d, "tool", Tok("null", ""))

\* parsed_content.get("tool_input", "")
InputOf(d) == DictGet(d, "tool_input", Str(""))

LastParsed == json_loads(Last(messages).content)

ConformsToVariant(d) ==
    \/ HasKey(d, "tool") /\ HasKey(d, "tool_input")
    \/ HasKey(d, "final_answer")

----------------------------------------------------------------------------
(* Properties *)

\* C1: at the end of a run, the Tool Step has executed if and only if the
\* Decision Step's parsed action held a "tool" key; a Decision Step that
\* marked control terminal ends the run without the Tool Step.
C1_ToolStepIffToolKey ==
    pc = "done" =>
        (Ran("call_tool")
            <=> (ExtractedObject.ok /\ HasKey(ExtractedObject.d, "tool")))

\* C2: a reply whose extracted object is {"final_answer": text}, with no
\* "tool" key, makes the run print exactly text.
C2_FinalAnswerPrinted ==
    (/\ pc = "done"
     /\ ExtractedObject.ok
     /\ Keys(ExtractedObject.d) = {"final_answer"})
        => stdout = <<DictGet(ExtractedObject.d, "final_answer", Str("")).s>>

\* C3: a reply whose extracted object names say_hello with a non-empty name
\* (chatter around the object or not) makes the Tool Step run, say_hello be
\* called exactly once with that name, and the run print "Hello, <name>!".
C3_GreetingPrinted ==
    (/\ pc = "done"
     /\ ExtractedObject.ok
     /\ ToolOf(ExtractedObject.d) = Str("say_hello")
     /\ InputOf(ExtractedObject.d).t = "str"
     /\ InputOf(ExtractedObject.d).s # "")
        => /\ Ran("call_tool")
           /\ calls = <<InputOf(ExtractedObject.d)>>
           /\ stdout = <<"Hello, " \o InputOf(ExtractedObject.d).s \o "!">>

C3_Witness ==
    /\ pc = "done"
    /\ response.text = <<Word("Sure!")>> \o ObjText(
           <<[k |-> "tool", v |-> Str("say_hello")],
             [k |-> "tool_input", v |-> Str("Bob")]>>)
    /\ calls = <<Str("Bob")>>
    /\ stdout = <<"Hello, Bob!">>

\* C4: a reply with no "{" ... "}" pair, a reply whose extracted text does
\* not parse, or an endpoint call that raises, makes the run print the fixed
\* apology, and the run ends without the tool step.
C4_ApologyPrinted ==
    (pc = "done" /\ ~ExtractedObject.ok)
        => stdout = <<Apology>> /\ ~Ran("call_tool")

\* C5: a tool invocation naming say_hello whose tool_input is absent or
\* empty makes the run print the fixed "no name" string, and say_hello is
\* never called.
C5_MissingNameReported ==
    (/\ pc = "done"
     /\ ExtractedObject.ok
     /\ ToolOf(ExtractedObject.d) = Str("say_hello")
     /\ InputOf(ExtractedObject.d) = Str(""))
        => stdout = <<NoName>> /\ calls = <<>>

C5_Witness ==
    /\ pc = "done"
    /\ response.text = ObjText(<<[k |-> "tool", v |-> Str("say_hello")]>>)
    /\ Ran("call_tool")
    /\ stdout = <<NoName>>

\* C6: in every state after the Decision Step has executed, the last message
\* is well-formed JSON that is a ToolInvocation {tool, tool_input} or a
\* FinalAnswer {final_answer}.
C6_LastMessageIsVariant ==
    executed # <<>> => LastParsed.ok /\ ConformsToVariant(LastParsed.d)

\* C7: no step raises to its caller; once an exception was caught or the
\* Tool Step has handled its action, the last message carries a final_answer
\* and control is terminal; a finished run has printed one line, the
\* final_answer of the last message, and not an exception.
C7_ErrorsRecoveredLocally ==
    /\ propagated = ""
    /\ (caught # <<>> \/ Ran("call_tool"))
          => /\ LastParsed.ok
             /\ HasKey(LastParsed.d, "final_answer")
             /\ next = END
    /\ pc = "done"
          => /\ LastParsed.ok
             /\ HasKey(LastParsed.d, "final_answer")
             /\ stdout = <<DictGet(LastParsed.d, "final_answer", Str("")).s>>

C7_Witness ==
    /\ pc = "done"
    /\ caught = <<"ValidationError">>
    /\ calls = <<Num("7")>>
    /\ stdout = <<"Error executing tool: ValidationError">>

\* C8: the Decision Step runs once and first, the Tool Step at most once and
\* after it, the Decision Step is not entered again, say_hello is called at
\* most once; in a run that has not finished a node is due or chain.invoke
\* has returned (the guard of a step holds), the run takes at most three
\* steps, and it finishes with next = END.
C8_SingleShotTerminates ==
    /\ executed \in {<<>>, <<"call_model">>, <<"call_model", "call_tool">>}
    /\ Len(calls) <= 1
    /\ pc = "done" \/ Runnable("call_model") \/ Runnable("call_tool") \/ Returned
    /\ pc = "done" => executed # <<>> /\ active = {} /\ next = END

C8_Witness ==
    /\ pc = "done"
    /\ executed = <<"call_model", "call_tool">>
    /\ Len(calls) = 1
    /\ next = END

\* C9: each step appends exactly one assistant message and leaves the
\* messages before it as they were, so the conversation holds the user
\* message and one message per executed step.
C9_OneMessagePerStep ==
    /\ [][executed' # executed =>
            /\ Len(messages') = Len(messages) + 1
            /\ SubSeq(messages', 1, Len(messages)) = messages
            /\ Last(messages').role = "assistant"]_vars
    /\ [](/\ Len(messages) = 1 + Len(executed)
          /\ messages[1] =
                HumanMessage(<<Word("Please say hello to Alice")>>))

C9_Witness ==
    /\ pc = "done"
    /\ caught = <<"JSONDecodeError">>
    /\ Len(messages) = 3
    /\ executed = <<"call_model", "call_tool">>

\* C10: the Decision Step routes to the Tool Step exactly when the parsed
\* object holds a "tool" key, whatever its value; a tool name other than
\* say_hello makes the Tool Step answer with the fixed failure string, which
\* the run prints, and say_hello is never called.
C10_UnknownToolFails ==
    /\ executed = <<"call_model">>
          => (next = "call_tool"
                <=> (ExtractedObject.ok /\ HasKey(ExtractedObject.d, "tool")))
    /\ (/\ pc = "done"
        /\ ExtractedObject.ok
        /\ HasKey(ExtractedObject.d, "tool")
        /\ ToolOf(ExtractedObject.d) # Str("say_hello"))
          => /\ Ran("call_tool")
             /\ calls = <<>>
             /\ stdout = <<ToolFailure>>

C10_Witness ==
    /\ pc = "done"
    /\ response.text = ObjText(
           <<[k |-> "tool", v |-> Str("Bob")],
             [k |-> "tool_input", v |-> Str("Bob")]>>)
    /\ Ran("call_tool")
    /\ stdout = <<ToolFailure>>

====
